---------------------------- MODULE Spec2Model ----------------------------
(***************************************************************************)
(* A model of src/fetch_13f.py: the SEC EDGAR 13F holdings fetcher.        *)
(*                                                                         *)
(*   Spec        process_fund for one fund: fetch_url (one action per      *)
(*               urlopen outcome), get_latest_13f_url,                     *)
(*               find_info_table_url, parse_13f_xml and the totals/sort/   *)
(*               truncation step.                                          *)
(*   SpecDocument process_fund from the return of the document fetch, on   *)
(*               information tables longer than every truncation limit.    *)
(*   SpecParse   parse_13f_xml applied to three documents carrying the     *)
(*               same position data under different namespaces.           *)
(*   SpecOverlap find_cross_fund_overlap applied to a list of fund results.*)
(*                                                                         *)
(* Python strings that the code inspects character by character are        *)
(* sequences of one-character strings; b"" and "" are the empty sequence.  *)
(* holding["weight"] (line 422) is an IEEE float and is left out.          *)
(***************************************************************************)
EXTENDS Integers, Sequences, FiniteSets, TLC

VARIABLES
    cik,          \* process_fund: the key of FUNDS being processed
    pc,           \* process_fund: where control is
    result,       \* process_fund: the result dict
    steps,        \* the calls process_fund has made, in order
    furl,         \* fetch_url: url
    fstatus,      \* fetch_url: "idle", "running", "returned" or "raised"
    attempt,      \* fetch_url: the loop variable
    requests,     \* fetch_url: the outcome of every urlopen of this call
    fbody,        \* fetch_url: the bytes returned
    fexc,         \* fetch_url: the exception raised
    submissions,  \* get_latest_13f_url: data, the parsed filing history
    ref,          \* get_latest_13f_url: what it returned
    tried,        \* find_info_table_url: the fetches it has completed
    probe,        \* find_info_table_url: index into common_names
    xml_url,      \* find_info_table_url: what it returned
    holdings,     \* process_fund: the list parse_13f_xml returned
    parseData,    \* SpecParse: the position data put into the documents
    parseOut,     \* SpecParse: parse_13f_xml of the three documents
    all_funds,    \* SpecOverlap: the argument of find_cross_fund_overlap
    overlaps      \* SpecOverlap: what find_cross_fund_overlap returned

vars == <<cik, pc, result, steps, furl, fstatus, attempt, requests, fbody,
          fexc, submissions, ref, tried, probe, xml_url, holdings,
          parseData, parseOut, all_funds, overlaps>>

fetchVars == <<furl, fstatus, attempt, requests, fbody, fexc>>
procVars == <<cik, pc, result, steps, submissions, ref, tried, probe,
              xml_url, holdings>>
parseVars == <<parseData, parseOut>>
overlapVars == <<all_funds, overlaps>>

None == "None"

(***************************************************************************)
(* Bounds of the model.                                                    *)
(***************************************************************************)
MaxForms == 2      \* entries of a filing history
MaxItems == 2      \* entries of a directory listing, links of an index page
MaxRecords == 2    \* infoTable elements of an information table in Spec
MaxN == 51         \* infoTable elements of an information table in SpecDocument
MaxEntries == 2    \* infoTable elements of a document of SpecParse
MaxFunds == 2      \* fund results given to find_cross_fund_overlap
MaxHoldings == 2   \* all_holdings of one such fund result

(***************************************************************************)
(* Python helpers.  Where a value is used several times it is bound by     *)
(* CHOOSE r \in {F(v) : v \in {e}} : TRUE, which is F(e) with e evaluated    *)
(* once.                                                                   *)
(***************************************************************************)
Min(a, b) == IF a < b THEN a ELSE b

\* s[:n]
Take(s, n) == SubSeq(s, 1, Min(n, Len(s)))

\* The sequences over S of length at most n.
SeqsUpTo(S, n) == UNION {[1..k -> S] : k \in 0..n}

Whitespace == {" "}

RECURSIVE LStrip(_)
LStrip(s) == IF s # <<>> /\ Head(s) \in Whitespace THEN LStrip(Tail(s)) ELSE s

RECURSIVE RStrip(_)
RStrip(s) ==
    IF s # <<>> /\ s[Len(s)] \in Whitespace
    THEN RStrip(SubSeq(s, 1, Len(s) - 1)) ELSE s

\* str.strip()
Strip(s) == RStrip(LStrip(s))

\* str.replace("-", "")
RemoveDashes(s) == SelectSeq(s, LAMBDA c : c # "-")

Digits == <<"0", "1", "2", "3", "4", "5", "6", "7", "8", "9">>

DigitValue(c) == (CHOOSE i \in 1..10 : Digits[i] = c) - 1

IsDigit(c) == \E i \in 1..10 : Digits[i] = c

RECURSIVE DigitsToNat(_)
DigitsToNat(s) ==
    IF s = <<>> THEN 0
    ELSE 10 * DigitsToNat(SubSeq(s, 1, Len(s) - 1)) + DigitValue(s[Len(s)])

\* int(text): surrounding whitespace and one sign are accepted; anything
\* else is a ValueError (ok is FALSE).
ParseInt(text) ==
    LET t == Strip(text)
        signed == t # <<>> /\ Head(t) \in {"-", "+"}
        d == IF signed THEN Tail(t) ELSE t
    IN  IF d = <<>> \/ \E i \in 1..Len(d) : ~IsDigit(d[i])
        THEN [ok |-> FALSE, n |-> 0]
        ELSE IF signed /\ Head(t) = "-" THEN [ok |-> TRUE, n |-> 0 - DigitsToNat(d)]
        ELSE [ok |-> TRUE, n |-> DigitsToNat(d)]

\* str(n) for n >= 0
RECURSIVE NatToDigits(_)
NatToDigits(n) ==
    IF n < 10 THEN <<Digits[n + 1]>>
    ELSE Append(NatToDigits(n \div 10), Digits[(n % 10) + 1])

(***************************************************************************)
(* FUNDS (lines 28-149): four of its entries.                              *)
(***************************************************************************)
FUNDS ==
    [c \in {"1647251", "1535392", "1336528", "1423053"} |->
        CASE c = "1647251" ->
                [name |-> "TCI Fund Management", manager |-> "Chris Hohn",
                 group |-> "A"]
          [] c = "1535392" ->
                [name |-> "Soroban Capital Partners",
                 manager |-> "Eric Mandelblatt", group |-> "A"]
          [] c = "1336528" ->
                [name |-> "Pershing Square Capital", manager |-> "Bill Ackman",
                 group |-> "A"]
          [] c = "1423053" ->
                [name |-> "Citadel Advisors", manager |-> "Ken Griffin",
                 group |-> "C"]]

\* The order in which main (line 492) goes through them.
FundOrder == <<"1647251", "1535392", "1336528", "1423053">>

\* The funds process_fund is run for in Spec and SpecDocument.
ProcessedFunds == {"1647251", "1423053"}

(***************************************************************************)
(* fetch_url (lines 152-177).  One action per outcome of urlopen; the      *)
(* operators below give what the loop does with that outcome on attempt    *)
(* number att (0-based, as in the code).                                   *)
(***************************************************************************)
max_retries == 3

EmptyBytes == [kind |-> "empty"]      \* b""
NoBody == [kind |-> "none"]

Running(att) == [status |-> "running", attempt |-> att, exc |-> None]
Raised(att, e) == [status |-> "raised", attempt |-> att, exc |-> e]
FellThrough(att) == [status |-> "returned", attempt |-> att, exc |-> None]

\* lines 164-167: sleep and go round the loop; line 177 when the loop ends
OnRateLimit(att) ==
    IF att + 1 < max_retries THEN Running(att + 1) ELSE FellThrough(att + 1)

\* lines 168-170
OnHttpStatus(att) == Raised(att, "HTTPError")

\* OnOtherFailure retrying once only, whatever max_retries is.
OnOtherFailureOnce(att) ==
    IF att < 1 THEN Running(att + 1) ELSE Raised(att, "URLError")

\* lines 171-176
OnOtherFailure(att) ==
    IF att < max_retries - 1 THEN Running(att + 1)
    ELSE Raised(att, "URLError")

\* The call fetch_url(url): the state on entry to the loop.
CallFetch(url) ==
    /\ furl' = url
    /\ fstatus' = "running"
    /\ attempt' = 0
    /\ requests' = <<>>
    /\ fbody' = NoBody
    /\ fexc' = None

FetchIdle ==
    /\ furl' = [kind |-> "", cik |-> "", acc |-> <<>>, name |-> <<>>]
    /\ fstatus' = "idle"
    /\ attempt' = 0
    /\ requests' = <<>>
    /\ fbody' = NoBody
    /\ fexc' = None

FetchDone == fstatus \in {"returned", "raised"}

AfterOutcome(r, outcome) ==
    /\ fstatus' = r.status
    /\ attempt' = r.attempt
    /\ fexc' = r.exc
    /\ requests' = Append(requests, outcome)
    /\ fbody' = IF r.status = "returned" THEN EmptyBytes ELSE NoBody
    /\ UNCHANGED <<furl, procVars, parseVars, overlapVars>>

(***************************************************************************)
(* get_latest_13f_url (lines 180-203).                                     *)
(***************************************************************************)
Garbage == [kind |-> "garbage"]    \* bytes that are neither JSON nor XML

FormTypes == {"10-K", "13F-HR", "13F-HR/A"}
TargetForms == {"13F-HR", "13F-HR/A"}                           \* line 197

AccessionNumbers == {<<"0", "0", "0", "0", "9", "5", "0", "1", "2", "3", "-", "2", "5", "-", "0", "0", "8", "3", "4", "3">>, <<>>}

\* filingDate and reportDate of the i-th entry; the code never looks inside.
FilingDates == <<"2025-11-14", "2025-08-14", "2025-05-15", "2025-02-14">>
ReportDates == <<"2025-09-30", "2025-06-30", "2025-03-31", "2024-12-31">>

\* The filing histories: form, accessionNumber and filingDate are parallel
\* arrays (the upstream format); reportDate may be shorter.
SubmissionsDocs ==
    UNION {
        {[kind |-> "json", form |-> f, accessionNumber |-> a,
          filingDate |-> SubSeq(FilingDates, 1, n),
          reportDate |-> SubSeq(ReportDates, 1, k)] :
            f \in [1..n -> FormTypes], a \in [1..n -> AccessionNumbers],
            k \in 0..n} :
        n \in 0..MaxForms}

Returned3(raw, period, formatted) ==
    [status |-> "returned", accession_raw |-> raw, period |-> period,
     accession_formatted |-> formatted, exc |-> None]

RaisedRef(e) ==
    [status |-> "raised", accession_raw |-> <<>>, period |-> "",
     accession_formatted |-> <<>>, exc |-> e]

NoRef == RaisedRef(None)

\* EntryAt taking the filing date even where a report date exists.
EntryAtFilingDate(data, i) ==
    IF i > Len(data.accessionNumber) \/ i > Len(data.filingDate)
    THEN RaisedRef("IndexError")
    ELSE Returned3(RemoveDashes(data.accessionNumber[i]), data.filingDate[i],
                   data.accessionNumber[i])

\* lines 198-201: the entry at index i (1-based here, 0-based in the code)
EntryAt(data, i) ==
    IF i > Len(data.accessionNumber) THEN RaisedRef("IndexError")
    ELSE IF i > Len(data.reportDate) /\ i > Len(data.filingDate)
    THEN RaisedRef("IndexError")
    ELSE Returned3(RemoveDashes(data.accessionNumber[i]),
                   IF i <= Len(data.reportDate) THEN data.reportDate[i]
                   ELSE data.filingDate[i],
                   data.accessionNumber[i])

\* lines 196-203: the loop, from index i on
RECURSIVE ScanForms(_, _)
ScanForms(data, i) ==
    IF i > Len(data.form) THEN Returned3(<<>>, "", <<>>)
    ELSE IF data.form[i] \in TargetForms THEN EntryAt(data, i)
    ELSE ScanForms(data, i + 1)

\* lines 188-203, given what fetch_url did
get_latest_13f_url(status, body, exc) ==
    IF status = "raised" THEN RaisedRef(exc)
    ELSE IF body.kind # "json" THEN RaisedRef("JSONDecodeError")
    ELSE ScanForms(body, 1)

(***************************************************************************)
(* find_info_table_url (lines 206-282): strings and candidates.            *)
(***************************************************************************)
UpperCase == <<"A", "B", "C", "D", "E", "F", "G", "H", "I", "J", "K", "L",
               "M", "N", "O", "P", "Q", "R", "S", "T", "U", "V", "W", "X",
               "Y", "Z">>
LowerCase == <<"a", "b", "c", "d", "e", "f", "g", "h", "i", "j", "k", "l",
               "m", "n", "o", "p", "q", "r", "s", "t", "u", "v", "w", "x",
               "y", "z">>

LowerChar(c) ==
    IF \E i \in 1..26 : UpperCase[i] = c
    THEN LowerCase[CHOOSE i \in 1..26 : UpperCase[i] = c] ELSE c

\* str.lower()
Lower(s) == [i \in 1..Len(s) |-> LowerChar(s[i])]

\* sub in s
Contains(s, sub) ==
    \E i \in 1..(Len(s) - Len(sub) + 1) : SubSeq(s, i, i + Len(sub) - 1) = sub

\* s.endswith(sub)
EndsWith(s, sub) ==
    Len(s) >= Len(sub) /\ SubSeq(s, Len(s) - Len(sub) + 1, Len(s)) = sub

\* s.startswith(sub)
StartsWith(s, sub) == Len(s) >= Len(sub) /\ SubSeq(s, 1, Len(sub)) = sub

\* s.split("/")[-1]
RECURSIVE LastSegment(_)
LastSegment(s) ==
    IF s = <<>> \/ s[Len(s)] = "/" THEN <<>>
    ELSE Append(LastSegment(SubSeq(s, 1, Len(s) - 1)), s[Len(s)])

DotXml == <<".", "x", "m", "l">>
Infotable == <<"i", "n", "f", "o", "t", "a", "b", "l", "e">>
Information == <<"i", "n", "f", "o", "r", "m", "a", "t", "i", "o", "n">>
Primary == <<"p", "r", "i", "m", "a", "r", "y">>
Http == <<"h", "t", "t", "p">>

\* Names a directory listing may hold (item.get("name", "")).
ItemNames == {<<"I", "N", "F", "O", "T", "A", "B", "L", "E", ".", "X", "M", "L">>, <<"p", "r", "i", "m", "a", "r", "y", "_", "d", "o", "c", ".", "x", "m", "l">>, <<"h", "o", "l", "d", "i", "n", "g", "s", ".", "x", "m", "l">>, <<"i", "n", "f", "o", "t", "a", "b", "l", "e", ".", "t", "x", "t">>, <<>>}

\* href values the pattern of line 245 extracts: each ends in .xml, whatever
\* the case.
Links == {<<"i", "n", "f", "o", "t", "a", "b", "l", "e", ".", "x", "m", "l">>, <<"h", "t", "t", "p", ":", "/", "/", "s", "e", "c", ".", "g", "o", "v", "/", "a", "/", "I", "n", "f", "o", "T", "a", "b", "l", "e", ".", "x", "m", "l">>, <<"/", "a", "/", "1", "/", "i", "n", "f", "o", "r", "m", "a", "t", "i", "o", "n", ".", "x", "m", "l">>, <<"p", "r", "i", "m", "a", "r", "y", "_", "d", "o", "c", ".", "x", "m", "l">>, <<"/", "a", "/", "1", "/", "h", "o", "l", "d", "i", "n", "g", "s", ".", "X", "M", "L">>}

Listings ==
    {[kind |-> "json", item |-> it] : it \in SeqsUpTo(ItemNames, MaxItems)}

\* An index page, by the links line 245 finds in it and by whether its
\* upper-cased text holds "INFORMATION TABLE" (line 253).
Pages ==
    {[kind |-> "html", links |-> l, phrase |-> ph] :
        l \in SeqsUpTo(Links, MaxItems), ph \in BOOLEAN}

\* line 266-272
common_names == <<<<"f", "o", "r", "m", "1", "3", "f", "I", "n", "f", "o", "T", "a", "b", "l", "e", ".", "x", "m", "l">>, <<"i", "n", "f", "o", "t", "a", "b", "l", "e", ".", "x", "m", "l">>, <<"I", "n", "f", "o", "T", "a", "b", "l", "e", ".", "x", "m", "l">>, <<"I", "N", "F", "O", "T", "A", "B", "L", "E", ".", "X", "M", "L">>, <<"i", "n", "f", "o", "r", "m", "a", "t", "i", "o", "n", "_", "t", "a", "b", "l", "e", ".", "x", "m", "l">>, <<"x", "s", "l", "F", "o", "r", "m", "1", "3", "F", "_", "X", "0", "2", ".", "x", "m", "l">>>>

SubmissionsUrl(c) == [kind |-> "submissions", cik |-> c, acc |-> <<>>, name |-> <<>>]
IndexJsonUrl(c, raw, fmt) == [kind |-> "index.json", cik |-> c, acc |-> raw, name |-> fmt]
IndexHtmlUrl(c, raw, fmt) == [kind |-> "index.htm", cik |-> c, acc |-> raw, name |-> fmt]
\* base_url + name
FileUrl(c, raw, name) == [kind |-> "file", cik |-> c, acc |-> raw, name |-> name]
\* a link that starts with "http", returned as it is
AbsoluteUrl(link) == [kind |-> "absolute", cik |-> "", acc |-> <<>>, name |-> link]
NoUrl == [kind |-> "", cik |-> "", acc |-> <<>>, name |-> <<>>]      \* ""

\* lines 216-223
IsInfotableItem(name) ==
    EndsWith(Lower(name), DotXml) /\ Contains(Lower(name), Infotable)

\* lines 225-231
IsOtherXmlItem(name) ==
    EndsWith(Lower(name), DotXml) /\ ~Contains(Lower(name), Primary)

\* lines 214-231: the name chosen from a listing, <<>> when there is none
IndexJsonCandidate(items) ==
    IF Take(SelectSeq(items, IsInfotableItem), 1) # <<>> THEN Take(SelectSeq(items, IsInfotableItem), 1)
    ELSE Take(SelectSeq(items, IsOtherXmlItem), 1)

\* line 247
IsInfotableLink(link) ==
    Contains(Lower(link), Infotable) \/ Contains(Lower(link), Information)

\* line 256
IsOtherXmlLink(link) ==
    EndsWith(Lower(link), DotXml) /\ ~Contains(Lower(link), Primary)

\* lines 246-259: the link chosen from an index page, <<>> when there is none
IndexHtmlCandidate(page) ==
    IF Take(SelectSeq(page.links, IsInfotableLink), 1) # <<>>
    THEN Take(SelectSeq(page.links, IsInfotableLink), 1)
    ELSE IF page.phrase THEN Take(SelectSeq(page.links, IsOtherXmlLink), 1)
    ELSE <<>>

\* lines 248-250, 257-259
LinkUrl(c, raw, link) ==
    IF StartsWith(link, Http) THEN AbsoluteUrl(link)
    ELSE FileUrl(c, raw, LastSegment(link))

(***************************************************************************)
(* parse_13f_xml (lines 285-355).  An element is its namespace URI ("" for *)
(* none), its local name, its text and its children: ElementTree's tag     *)
(* "{uri}local" is the pair (ns, tag).                                     *)
(***************************************************************************)
Element(ns, tag, text, children) ==
    [ns |-> ns, tag |-> tag, text |-> text, children |-> children]

\* lines 301-306
known_ns == <<"http://www.sec.gov/edgar/document/thirteenf/informationtable",
              "http://www.sec.gov/edgar/thirteenf",
              "http://www.sec.gov/edgar/common/informationtable",
              "">>

InSeq(x, s) == \E i \in 1..Len(s) : s[i] = x

\* ns_patterns without the namespace of the root element.
ns_patterns_fixed(root) == known_ns

\* lines 309-313: the root's own namespace goes first when it is not known
ns_patterns(root) ==
    IF root.ns # "" /\ ~InSeq(root.ns, known_ns) THEN <<root.ns>> \o known_ns
    ELSE known_ns

\* Every element below el, in document order.
RECURSIVE Descendants(_)
RECURSIVE DescendantsOfAll(_)
Descendants(el) == DescendantsOfAll(el.children)
DescendantsOfAll(els) ==
    IF els = <<>> THEN <<>>
    ELSE <<Head(els)>> \o Descendants(Head(els)) \o DescendantsOfAll(Tail(els))

\* root.findall(".//{ns}tag")
FindAll(root, ns, tag) ==
    SelectSeq(Descendants(root), LAMBDA e : e.ns = ns /\ e.tag = tag)

\* el.find("{ns}tag"), as a sequence of at most one element
Find(el, ns, tag) ==
    Take(SelectSeq(el.children, LAMBDA e : e.ns = ns /\ e.tag = tag), 1)

\* el.findtext("{ns}tag", default)
FindText(el, ns, tag, default) ==
    IF Find(el, ns, tag) = <<>> THEN default ELSE Find(el, ns, tag)[1].text

\* lines 315-319
RECURSIVE FindInfoTables(_, _)
FindInfoTables(root, patterns) ==
    IF patterns = <<>> THEN <<>>
    ELSE IF FindAll(root, Head(patterns), "infoTable") # <<>>
    THEN FindAll(root, Head(patterns), "infoTable")
    ELSE FindInfoTables(root, Tail(patterns))

COM == <<"C", "O", "M">>
SH == <<"S", "H">>
SOLE == <<"S", "O", "L", "E">>
Zero == <<"0">>

Thousand == 1000

\* lines 326-349: the holding read from entry under namespace ns; raised
\* when int() rejects a text
ReadHolding(entry, ns) ==
    LET value == ParseInt(FindText(entry, ns, "value", Zero))
        node == Find(entry, ns, "shrsOrPrnAmt")
        shares == IF node = <<>> THEN [ok |-> TRUE, n |-> 0]
                  ELSE ParseInt(FindText(node[1], ns, "sshPrnamt", Zero))
    IN  IF ~value.ok \/ ~shares.ok
        THEN [raised |-> TRUE, out |-> <<>>]
        ELSE [raised |-> FALSE,
              out |-> <<[name |-> Strip(FindText(entry, ns, "nameOfIssuer", <<>>)),
                         title |-> Strip(FindText(entry, ns, "titleOfClass", COM)),
                         cusip |-> Strip(FindText(entry, ns, "cusip", <<>>)),
                         value |-> value.n * Thousand,
                         shares |-> shares.n,
                         type |-> IF node = <<>> THEN SH
                                  ELSE FindText(node[1], ns, "sshPrnamtType", SH),
                         discretion |->
                             Strip(FindText(entry, ns, "investmentDiscretion",
                                            SOLE))]>>]

\* lines 322-353 for one entry: the holding appended (none when the entry is
\* dropped), or raised
RECURSIVE ParseEntry(_, _)
ParseEntry(entry, patterns) ==
    IF patterns = <<>> THEN [raised |-> FALSE, out |-> <<>>]
    ELSE IF FindText(entry, Head(patterns), "nameOfIssuer", <<>>) # <<>>
    THEN LET h == ReadHolding(entry, Head(patterns))
         IN  IF h.raised THEN h
             ELSE IF h.out[1].name = <<>> THEN [raised |-> FALSE, out |-> <<>>]
             ELSE h
    ELSE ParseEntry(entry, Tail(patterns))

\* lines 321-353: the loop over info_tables from the i-th entry on, with
\* the holdings appended so far
RECURSIVE ParseEntries(_, _, _, _)
ParseEntries(entries, patterns, i, appended) ==
    IF i > Len(entries) THEN [raised |-> FALSE, out |-> appended]
    ELSE IF ParseEntry(entries[i], patterns).raised
    THEN [raised |-> TRUE, out |-> <<>>]
    ELSE ParseEntries(entries, patterns, i + 1,
                      appended \o ParseEntry(entries[i], patterns).out)

\* lines 299-355, given the root element
ParseRoot(root) ==
    CHOOSE parsed \in
        {[raised |-> r.raised,
          exc |-> IF r.raised THEN "ValueError" ELSE None,
          out |-> r.out] :
            r \in {ParseEntries(info_tables, ns_patterns(root), 1, <<>>) :
                      info_tables \in {FindInfoTables(root, ns_patterns(root))}}} :
        TRUE

\* parse_13f_xml: bytes that are no XML fail both ET.fromstring calls
\* (lines 291 and 297)
parse_13f_xml(xml_data) ==
    IF xml_data.kind # "xml"
    THEN [raised |-> TRUE, exc |-> "ParseError", out |-> <<>>]
    ELSE CHOOSE parsed \in {ParseRoot(root) : root \in {xml_data.root}} : TRUE

(***************************************************************************)
(* Documents.  The position data of one infoTable element gives each       *)
(* field as a sequence of at most one text (none: the element is absent);  *)
(* amount is the nested block, absent or with its two children.            *)
(***************************************************************************)
Field(ns, tag, texts) ==
    IF texts = <<>> THEN <<>> ELSE <<Element(ns, tag, texts[1], <<>>)>>

AmountBlock(ns, amount) ==
    IF amount = <<>> THEN <<>>
    ELSE <<Element(ns, "shrsOrPrnAmt", <<>>,
                   Field(ns, "sshPrnamt", amount[1].sshPrnamt)
                   \o Field(ns, "sshPrnamtType", amount[1].sshPrnamtType))>>

InfoTable(ns, d) ==
    Element(ns, "infoTable", <<>>,
            Field(ns, "nameOfIssuer", d.nameOfIssuer)
            \o Field(ns, "titleOfClass", d.titleOfClass)
            \o Field(ns, "cusip", d.cusip)
            \o Field(ns, "value", d.value)
            \o AmountBlock(ns, d.amount)
            \o Field(ns, "investmentDiscretion", d.investmentDiscretion))

\* The document whose every element is in namespace ns.
XmlDocument(ns, data) ==
    [kind |-> "xml",
     root |-> Element(ns, "informationTable", <<>>,
                      [i \in 1..Len(data) |-> InfoTable(ns, data[i])])]

\* A namespace URI that is not one of known_ns.
OtherNs == "http://example.com/13f"

\* The fetched information tables: n complete elements whose values follow
\* one of three patterns (rising, falling in pairs, cycling).
PatternValue(p, i, n) ==
    IF p = 1 THEN i ELSE IF p = 2 THEN (n - i) \div 2 ELSE (i * 7) % 5

GeneratedData(n, p) ==
    [i \in 1..n |->
        [nameOfIssuer |-> <<<<"N">> \o NatToDigits(i)>>,
         titleOfClass |-> <<COM>>,
         cusip |-> <<<<"Q">> \o NatToDigits(i % 3)>>,
         value |-> <<NatToDigits(PatternValue(p, i, n))>>,
         amount |-> <<[sshPrnamt |-> <<NatToDigits(i)>>,
                       sshPrnamtType |-> <<SH>>]>>,
         investmentDiscretion |-> <<SOLE>>]]

(***************************************************************************)
(* process_fund (lines 358-441).                                           *)
(***************************************************************************)
TopGroupC == 10      \* line 429
TopDefault == 20     \* line 425
AllLimit == 50       \* line 432

\* line 364-380
InitialResult(c) ==
    [cik |-> c, name |-> FUNDS[c].name, manager |-> FUNDS[c].manager,
     group |-> FUNDS[c].group, period |-> "", total_value |-> 0,
     num_holdings |-> 0, top_holdings |-> <<>>, all_holdings |-> <<>>,
     error |-> None]

RECURSIVE SumValues(_)
SumValues(hs) == IF hs = <<>> THEN 0 ELSE Head(hs).value + SumValues(Tail(hs))

\* list.sort(key=value, reverse=True) is stable: the place of hs[i] is one
\* more than the number of elements that go before it, which are those of
\* greater value and those of equal value that stood before it.
SortedPlace(hs, i) ==
    1 + Cardinality({j \in 1..Len(hs) :
                        \/ hs[j].value > hs[i].value
                        \/ hs[j].value = hs[i].value /\ j < i})

SortByValueDesc(hs) ==
    [k \in 1..Len(hs) |-> hs[CHOOSE i \in 1..Len(hs) : SortedPlace(hs, i) = k]]

\* TopLimit without the rule for group C.
TopLimitNoGroup(group) == TopDefault

\* lines 425-429
TopLimit(group) == IF group = "C" THEN TopGroupC ELSE TopDefault

\* lines 413-432, given the sorted list
Truncate(res, hs, sorted) ==
    [res EXCEPT !.total_value = SumValues(hs),
                !.num_holdings = Len(hs),
                !.top_holdings = Take(sorted, TopLimit(res.group)),
                !.all_holdings = Take(sorted, AllLimit)]

\* lines 413-432
Step4(res, hs) ==
    CHOOSE r \in {Truncate(res, hs, sorted) :
                     sorted \in {SortByValueDesc(hs) \o <<>>}} : TRUE

\* What process_fund hands to its caller.
Return(res) == [how |-> "returned", result |-> res]

\* lines 386-387, 398-399, 409-410
Fail(res, message) == Return([res EXCEPT !.error = message])

\* Capture with an except clause that does not match: the exception goes on
\* to the caller.
CaptureNothing(res, e) == [how |-> "raised", result |-> res]

\* lines 437-441: an exception raised inside the try block
Capture(res, e) == Return([res EXCEPT !.error = e])

\* NotFound without the check of line 385.
NotFoundNever(r) == FALSE

\* line 385
NotFound(r) == r.accession_raw = <<>>

\* The bytes a successful response may carry, by the call that asked.  The
\* bytes of a filename probe are dropped unread (line 276).
Unread == [kind |-> "unread"]

\* The information tables a fetch inside Spec may return.
XmlDocuments ==
    {XmlDocument(ns, GeneratedData(n, p)) :
        ns \in {"", known_ns[1], OtherNs}, n \in 0..MaxRecords, p \in 1..3}

\* The information tables of SpecDocument: up to MaxN elements, which is
\* past every truncation limit.
LargeDocuments ==
    {XmlDocument(known_ns[2], GeneratedData(n, p)) : n \in 1..MaxN, p \in 1..3}

ResponseBodies(site) ==
    CASE site = "locate" -> SubmissionsDocs \cup {Garbage}
      [] site = "index_json" -> Listings \cup {Garbage}
      [] site = "index_html" -> Pages
      [] site = "probe" -> {Unread}
      [] site = "document" -> XmlDocuments \cup {Garbage}

InFetch == pc \in {"locate", "index_json", "index_html", "probe", "document"}

\* lines 156-162: a successful response; body is data as line 162 returns
\* it, decompressed where the response was gzip
UrlopenOk ==
    /\ InFetch /\ fstatus = "running"
    /\ \E body \in ResponseBodies(pc) :
        /\ fbody' = body
        /\ fstatus' = "returned"
        /\ requests' = Append(requests, "ok")
    /\ UNCHANGED <<furl, attempt, fexc, procVars, parseVars, overlapVars>>

\* lines 163-167: HTTP 429
UrlopenRateLimited ==
    /\ InFetch /\ fstatus = "running"
    /\ AfterOutcome(OnRateLimit(attempt), "429")

\* lines 168-170: any other HTTP status
UrlopenHttpStatus ==
    /\ InFetch /\ fstatus = "running"
    /\ AfterOutcome(OnHttpStatus(attempt), "http")

\* lines 171-176: any other exception
UrlopenOtherFailure ==
    /\ InFetch /\ fstatus = "running"
    /\ AfterOutcome(OnOtherFailure(attempt), "error")

\* process_fund up to the fetch inside get_latest_13f_url (lines 364-188)
ProcessStart ==
    /\ pc = "start"
    /\ result' = InitialResult(cik)
    /\ steps' = <<"locate">>
    /\ CallFetch(SubmissionsUrl(cik))
    /\ pc' = "locate"
    /\ UNCHANGED <<cik, submissions, ref, tried, probe, xml_url, holdings,
                   parseVars, overlapVars>>

\* get_latest_13f_url after its fetch (lines 188-203)
LocateReturn ==
    /\ pc = "locate" /\ FetchDone
    /\ submissions' = IF fstatus = "returned" /\ fbody.kind = "json" THEN fbody
                      ELSE Garbage
    /\ ref' = get_latest_13f_url(fstatus, fbody, fexc)
    /\ pc' = "located"
    /\ FetchIdle
    /\ UNCHANGED <<cik, result, steps, tried, probe, xml_url, holdings,
                   parseVars, overlapVars>>

\* process_fund lines 384-396 and find_info_table_url up to its first fetch
\* (lines 210-214)
ProcessLocated ==
    /\ pc = "located"
    /\ submissions' = Garbage
    /\ IF ref.status = "raised"
       THEN /\ result' = Capture(result, ref.exc).result
            /\ pc' = Capture(result, ref.exc).how
            /\ UNCHANGED <<steps, fetchVars>>
       ELSE IF NotFound(ref)
       THEN /\ result' = Fail(result, "No 13F filing found").result
            /\ pc' = Fail(result, "No 13F filing found").how
            /\ UNCHANGED <<steps, fetchVars>>
       ELSE /\ result' = [result EXCEPT !.period = ref.period]
            /\ steps' = Append(steps, "resolve")
            /\ CallFetch(IndexJsonUrl(cik, ref.accession_raw,
                                      ref.accession_formatted))
            /\ pc' = "index_json"
    /\ UNCHANGED <<cik, ref, tried, probe, xml_url, holdings, parseVars,
                   overlapVars>>

Tried(method, name, outcome) ==
    [method |-> method, name |-> name, outcome |-> outcome,
     success |-> requests # <<>> /\ requests[Len(requests)] = "ok"]

\* AfterIndexJson going straight to the filename probes.
AfterIndexJsonSkip == "probe"

\* What find_info_table_url does when a method has found nothing.
AfterIndexJson == "index_html"      \* line 235
AfterIndexHtml == "probe"           \* line 263

\* line 273: the index of the probe after the i-th, 0 after the last
NextProbe(i) == IF i < Len(common_names) THEN i + 1 ELSE 0

\* lines 274-280: whether the probe's fetch makes its URL the result
ProbeAccepted == fstatus = "returned"

MethodUrl(method, i) ==
    IF method = "index_html"
    THEN IndexHtmlUrl(cik, ref.accession_raw, ref.accession_formatted)
    ELSE FileUrl(cik, ref.accession_raw, common_names[i])

\* find_info_table_url returns url
Resolved(url) ==
    /\ xml_url' = url
    /\ pc' = "resolved"
    /\ FetchIdle

\* find_info_table_url goes on with the next method
StartMethod(method) ==
    /\ pc' = method
    /\ probe' = IF method = "probe" THEN 1 ELSE 0
    /\ CallFetch(MethodUrl(method, 1))
    /\ UNCHANGED xml_url

\* Method 1 after its fetch (lines 214-233)
IndexJsonDone ==
    /\ pc = "index_json" /\ FetchDone
    /\ LET parsed == fstatus = "returned" /\ fbody.kind = "json"
           cand == IF parsed THEN IndexJsonCandidate(fbody.item) ELSE <<>>
       IN  IF cand # <<>>
           THEN /\ tried' = Append(tried, Tried("index_json", cand[1], "found"))
                /\ Resolved(FileUrl(cik, ref.accession_raw, cand[1]))
                /\ UNCHANGED probe
           ELSE /\ tried' = Append(tried, Tried("index_json", <<>>,
                                IF parsed THEN "no candidate" ELSE "failed"))
                /\ StartMethod(AfterIndexJson)
    /\ UNCHANGED <<cik, result, steps, submissions, ref, holdings, parseVars,
                   overlapVars>>

\* Method 2 after its fetch (lines 240-261)
IndexHtmlDone ==
    /\ pc = "index_html" /\ FetchDone
    /\ LET cand == IF fstatus = "returned" /\ fbody.kind = "html"
                   THEN IndexHtmlCandidate(fbody) ELSE <<>>
       IN  IF cand # <<>>
           THEN /\ tried' = Append(tried, Tried("index_html", cand[1], "found"))
                /\ Resolved(LinkUrl(cik, ref.accession_raw, cand[1]))
                /\ UNCHANGED probe
           ELSE /\ tried' = Append(tried, Tried("index_html", <<>>,
                                IF fstatus = "returned" THEN "no candidate"
                                ELSE "failed"))
                /\ StartMethod(AfterIndexHtml)
    /\ UNCHANGED <<cik, result, steps, submissions, ref, holdings, parseVars,
                   overlapVars>>

\* Method 3 after the fetch of one file name (lines 273-282)
ProbeDone ==
    /\ pc = "probe" /\ FetchDone
    /\ IF ProbeAccepted
       THEN /\ tried' = Append(tried, Tried("probe", common_names[probe], "found"))
            /\ Resolved(furl)
            /\ UNCHANGED probe
       ELSE /\ tried' = Append(tried, Tried("probe", common_names[probe], "failed"))
            /\ IF NextProbe(probe) # 0
               THEN /\ probe' = NextProbe(probe)
                    /\ CallFetch(MethodUrl("probe", NextProbe(probe)))
                    /\ UNCHANGED <<pc, xml_url>>
               ELSE /\ Resolved(NoUrl)
                    /\ UNCHANGED probe
    /\ UNCHANGED <<cik, result, steps, submissions, ref, holdings, parseVars,
                   overlapVars>>

\* process_fund lines 396-405
ProcessResolved ==
    /\ pc = "resolved"
    /\ tried' = <<>>
    /\ IF xml_url = NoUrl
       THEN /\ result' = Fail(result, "Could not find information table XML").result
            /\ pc' = Fail(result, "Could not find information table XML").how
            /\ UNCHANGED <<steps, fetchVars>>
       ELSE /\ steps' = Append(steps, "fetch")
            /\ CallFetch(xml_url)
            /\ pc' = "document"
            /\ UNCHANGED result
    /\ UNCHANGED <<cik, submissions, ref, probe, xml_url, holdings, parseVars,
                   overlapVars>>

\* process_fund lines 405-441
ProcessDocument ==
    /\ pc = "document" /\ FetchDone
    /\ IF fstatus = "raised"
       THEN /\ result' = Capture(result, fexc).result
            /\ pc' = Capture(result, fexc).how
            /\ UNCHANGED <<steps, holdings>>
       ELSE \E parsed \in {parse_13f_xml(fbody)} :
            \E out \in {IF parsed.raised THEN Capture(result, parsed.exc)
                       ELSE IF parsed.out = <<>>
                       THEN Fail(result, "No holdings parsed from XML")
                       ELSE Return(Step4(result, parsed.out))} :
                /\ steps' = Append(steps, "parse")
                /\ holdings' = parsed.out
                /\ result' = out.result
                /\ pc' = out.how
    /\ FetchIdle
    /\ UNCHANGED <<cik, submissions, ref, tried, probe, xml_url, parseVars,
                   overlapVars>>

Init ==
    /\ cik \in ProcessedFunds
    /\ pc = "start"
    /\ result = InitialResult(cik)
    /\ steps = <<>>
    /\ furl = NoUrl
    /\ fstatus = "idle"
    /\ attempt = 0
    /\ requests = <<>>
    /\ fbody = NoBody
    /\ fexc = None
    /\ submissions = Garbage
    /\ ref = NoRef
    /\ tried = <<>>
    /\ probe = 0
    /\ xml_url = NoUrl
    /\ holdings = <<>>
    /\ parseData = <<>>
    /\ parseOut = <<>>
    /\ all_funds = <<>>
    /\ overlaps = <<>>

Next ==
    \/ ProcessStart
    \/ UrlopenOk
    \/ UrlopenRateLimited
    \/ UrlopenHttpStatus
    \/ UrlopenOtherFailure
    \/ LocateReturn
    \/ ProcessLocated
    \/ IndexJsonDone
    \/ IndexHtmlDone
    \/ ProbeDone
    \/ ProcessResolved
    \/ ProcessDocument

Spec == Init /\ [][Next]_vars

(***************************************************************************)
(* SpecDocument: process_fund at the return of fetch_url(xml_url) (line    *)
(* 405) with a large information table, and the rest of the function.      *)
(***************************************************************************)
InitDocument ==
    /\ cik \in ProcessedFunds
    /\ pc = "document"
    /\ ref \in {Returned3(RemoveDashes(a), ReportDates[1], a) :
                    a \in AccessionNumbers \ {<<>>}}
    /\ result = [InitialResult(cik) EXCEPT !.period = ref.period]
    /\ steps = <<"locate", "resolve", "fetch">>
    /\ xml_url = FileUrl(cik, ref.accession_raw, common_names[1])
    /\ furl = xml_url
    /\ fstatus = "returned"
    /\ attempt = 0
    /\ requests = <<"ok">>
    /\ fbody \in LargeDocuments
    /\ fexc = None
    /\ submissions = Garbage
    /\ tried = <<>>
    /\ probe = 0
    /\ holdings = <<>>
    /\ parseData = <<>>
    /\ parseOut = <<>>
    /\ all_funds = <<>>
    /\ overlaps = <<>>

NextDocument == ProcessDocument

SpecDocument == InitDocument /\ [][NextDocument]_vars

(***************************************************************************)
(* SpecParse: parse_13f_xml on three documents that hold the same position *)
(* data: one with no namespace, one in a namespace of known_ns, one in a   *)
(* namespace parse_13f_xml has never heard of.                             *)
(***************************************************************************)
NameTexts == {<<>>, <<<<" ">>>>, <<<<" ", "A", " ">>>>}
ValueTexts == {<<>>, <<<<"1", "2", "3", "4">>>>}
Amounts == {<<>>, <<[sshPrnamt |-> <<<<"7">>>>, sshPrnamtType |-> <<>>]>>}

\* titleOfClass, cusip and investmentDiscretion: all absent or all present
Others ==
    {[titleOfClass |-> <<>>, cusip |-> <<>>, investmentDiscretion |-> <<>>],
     [titleOfClass |-> <<<<" ", "P", "U", "T">>>>, cusip |-> <<<<"0", "3", "7", "8", "3", "3", "1", "0", "0">>>>,
      investmentDiscretion |-> <<<<"D", "F", "N", "D", " ">>>>]}

EntryData ==
    {[nameOfIssuer |-> n, titleOfClass |-> o.titleOfClass, cusip |-> o.cusip,
      value |-> v, amount |-> a,
      investmentDiscretion |-> o.investmentDiscretion] :
        n \in NameTexts, v \in ValueTexts, a \in Amounts, o \in Others}
    \cup {\* an empty issuer name, an empty value, an amount block without
          \* its amount
          [nameOfIssuer |-> <<<<>>>>, titleOfClass |-> <<>>, cusip |-> <<>>,
           value |-> <<<<"1", "2", "3", "4">>>>, amount |-> <<>>,
           investmentDiscretion |-> <<>>],
          [nameOfIssuer |-> <<<<" ", "A", " ">>>>, titleOfClass |-> <<>>, cusip |-> <<>>,
           value |-> <<<<>>>>, amount |-> <<>>,
           investmentDiscretion |-> <<>>],
          [nameOfIssuer |-> <<<<" ", "A", " ">>>>, titleOfClass |-> <<>>, cusip |-> <<>>,
           value |-> <<>>,
           amount |-> <<[sshPrnamt |-> <<>>, sshPrnamtType |-> <<<<"P", "R", "N">>>>]>>,
           investmentDiscretion |-> <<>>]}

InitParse ==
    /\ pc = "parse"
    /\ parseData \in SeqsUpTo(EntryData, MaxEntries)
    /\ parseOut = <<>>
    /\ cik = FundOrder[1]
    /\ result = InitialResult(cik)
    /\ steps = <<>>
    /\ furl = NoUrl
    /\ fstatus = "idle"
    /\ attempt = 0
    /\ requests = <<>>
    /\ fbody = NoBody
    /\ fexc = None
    /\ submissions = Garbage
    /\ ref = NoRef
    /\ tried = <<>>
    /\ probe = 0
    /\ xml_url = NoUrl
    /\ holdings = <<>>
    /\ all_funds = <<>>
    /\ overlaps = <<>>

\* parse_13f_xml of the three documents
ParseThree ==
    /\ pc = "parse"
    /\ \E known \in {known_ns[1], known_ns[2], known_ns[3]} :
        parseOut' = <<[ns |-> "",
                       parsed |-> parse_13f_xml(XmlDocument("", parseData))],
                      [ns |-> known,
                       parsed |-> parse_13f_xml(XmlDocument(known, parseData))],
                      [ns |-> OtherNs,
                       parsed |-> parse_13f_xml(XmlDocument(OtherNs, parseData))]>>
    /\ pc' = "parsed"
    /\ UNCHANGED <<cik, result, steps, submissions, ref, tried, probe,
                   xml_url, holdings, parseData, fetchVars, overlapVars>>

NextParse == ParseThree

SpecParse == InitParse /\ [][NextParse]_vars

(***************************************************************************)
(* find_cross_fund_overlap (lines 444-480).  stock_funds, a dict, is the   *)
(* sequence of its values in insertion order.                              *)
(***************************************************************************)
OverlapLimit == 30      \* line 480

\* fund.get("error") as a condition
Truthy(e) == e # None /\ e # ""

\* lines 462-468
HolderEntry(fund, h) ==
    [fund |-> fund.name, manager |-> fund.manager, value |-> h.value,
     shares |-> h.shares]

\* lines 452-469 for one holding
AddHolding(stock_funds, fund, h) ==
    IF h.cusip = <<>> THEN stock_funds
    ELSE IF \E k \in 1..Len(stock_funds) : stock_funds[k].cusip = h.cusip
    THEN LET k == CHOOSE k \in 1..Len(stock_funds) :
                      stock_funds[k].cusip = h.cusip
         IN  [stock_funds EXCEPT
                  ![k].funds = Append(@, HolderEntry(fund, h)),
                  ![k].total_value = @ + h.value]
    ELSE Append(stock_funds,
                [name |-> h.name, cusip |-> h.cusip,
                 funds |-> <<HolderEntry(fund, h)>>, total_value |-> h.value])

\* lines 451-469: the holdings of fund from the j-th on
RECURSIVE AddHoldings(_, _, _)
AddHoldings(stock_funds, fund, j) ==
    IF j > Len(fund.all_holdings) THEN stock_funds
    ELSE CHOOSE r \in
             {AddHoldings(next, fund, j + 1) :
                 next \in {AddHolding(stock_funds, fund, fund.all_holdings[j])}} :
             TRUE

\* lines 448-469: the funds from the i-th on
RECURSIVE CollectFunds(_, _, _)
CollectFunds(stock_funds, funds, i) ==
    IF i > Len(funds) THEN stock_funds
    ELSE CHOOSE r \in
             {CollectFunds(next, funds, i + 1) :
                 next \in {IF Truthy(funds[i].error) THEN stock_funds
                           ELSE AddHoldings(stock_funds, funds[i], 1)}} :
             TRUE

\* line 474
HeldByEnough(v) == Len(v.funds) >= 2

\* lines 472-477
Filtered(stock_funds) ==
    LET kept == SelectSeq(stock_funds, HeldByEnough)
    IN  [k \in 1..Len(kept) |->
            [name |-> kept[k].name, cusip |-> kept[k].cusip,
             funds |-> kept[k].funds, total_value |-> kept[k].total_value,
             fund_count |-> Len(kept[k].funds),
             fund_names |-> [j \in 1..Len(kept[k].funds) |->
                                kept[k].funds[j].fund] \o <<>>]] \o <<>>

\* line 478: the key (-fund_count, -total_value) of a is less than that of b
KeyLess(a, b) ==
    \/ a.fund_count > b.fund_count
    \/ a.fund_count = b.fund_count /\ a.total_value > b.total_value

KeyEqual(a, b) == a.fund_count = b.fund_count /\ a.total_value = b.total_value

\* line 478: list.sort is stable
OverlapPlace(vs, i) ==
    1 + Cardinality({j \in 1..Len(vs) :
                        \/ KeyLess(vs[j], vs[i])
                        \/ KeyEqual(vs[j], vs[i]) /\ j < i})

SortOverlaps(vs) ==
    [k \in 1..Len(vs) |-> vs[CHOOSE i \in 1..Len(vs) : OverlapPlace(vs, i) = k]]
    \o <<>>

find_cross_fund_overlap(funds) ==
    CHOOSE r \in
        {Take(SortOverlaps(vs), OverlapLimit) :
            vs \in {Filtered(stock_funds) :
                      stock_funds \in {CollectFunds(<<>>, funds, 1)}}} :
        TRUE

(***************************************************************************)
(* SpecOverlap: find_cross_fund_overlap on the results of up to MaxFunds   *)
(* funds.  A result with an error has no holdings; the all_holdings of the *)
(* others are as process_fund leaves them, sorted by falling value.        *)
(***************************************************************************)
Cusips == {<<>>, <<"0", "3", "7", "8", "3", "3", "1", "0", "0">>, <<"8", "8", "1", "6", "0", "R", "1", "0", "1">>}

\* The holding at place j of n with the given cusip.
HeldPosition(c, j, n) ==
    [name |-> <<"N">> \o c, title |-> COM, cusip |-> c,
     value |-> (n + 1 - j) * Thousand, shares |-> j, type |-> SH,
     discretion |-> SOLE]

HoldingLists ==
    UNION {{[j \in 1..n |-> HeldPosition(cs[j], j, n)] : cs \in [1..n -> Cusips]} :
           n \in 1..MaxHoldings}

\* The results process_fund may hand back for the fund c.
FundResults(c) ==
    {[InitialResult(c) EXCEPT !.error = "HTTPError"]}
    \cup {Step4(InitialResult(c), hs) : hs \in HoldingLists}

FundResultLists ==
    UNION {{fs \in [1..n -> UNION {FundResults(FundOrder[i]) : i \in 1..n}] :
                \A i \in 1..n : fs[i].cik = FundOrder[i]} :
           n \in 0..MaxFunds}

InitOverlap ==
    /\ pc = "analyze"
    /\ all_funds \in FundResultLists
    /\ overlaps = <<>>
    /\ cik = FundOrder[1]
    /\ result = InitialResult(cik)
    /\ steps = <<>>
    /\ furl = NoUrl
    /\ fstatus = "idle"
    /\ attempt = 0
    /\ requests = <<>>
    /\ fbody = NoBody
    /\ fexc = None
    /\ submissions = Garbage
    /\ ref = NoRef
    /\ tried = <<>>
    /\ probe = 0
    /\ xml_url = NoUrl
    /\ holdings = <<>>
    /\ parseData = <<>>
    /\ parseOut = <<>>

\* main, line 516
Analyze ==
    /\ pc = "analyze"
    /\ overlaps' = find_cross_fund_overlap(all_funds)
    /\ pc' = "analyzed"
    /\ UNCHANGED <<cik, result, steps, submissions, ref, tried, probe,
                   xml_url, holdings, all_funds, fetchVars, parseVars>>

NextOverlap == Analyze

SpecOverlap == InitOverlap /\ [][NextOverlap]_vars

(***************************************************************************)
(* The claims.                                                             *)
(***************************************************************************)
Last(s) == s[Len(s)]

AllAre(s, x) == \A i \in 1..Len(s) : s[i] = x

\* C1: fetch_url returns bytes only as the body of a successful response,
\* and a call whose every attempt failed (rate-limit responses included)
\* ends by raising, never by returning a value.
C1_ReturnsOnlySuccessBody ==
    FetchDone =>
        (fstatus = "returned" <=> requests # <<>> /\ Last(requests) = "ok")

\* C2: every security find_cross_fund_overlap emits is held by at least two
\* distinct funds among those processed without error.
C2_HoldersAreDistinctFunds ==
    pc = "analyzed" =>
        \A k \in 1..Len(overlaps) :
            /\ Cardinality({overlaps[k].funds[j].fund :
                               j \in 1..Len(overlaps[k].funds)}) >= 2
            /\ Cardinality({i \in 1..Len(all_funds) :
                               /\ all_funds[i].error = None
                               /\ \E j \in 1..Len(all_funds[i].all_holdings) :
                                      all_funds[i].all_holdings[j].cusip
                                          = overlaps[k].cusip}) >= 2

\* The method that find_info_table_url tries in i-th place, and the file
\* name it probes then.
ExpectedMethod(i) ==
    IF i = 1 THEN "index_json" ELSE IF i = 2 THEN "index_html" ELSE "probe"

ProbeNames ==
    <<<<"f", "o", "r", "m", "1", "3", "f", "I", "n", "f", "o", "T", "a", "b", "l", "e", ".", "x", "m", "l">>, <<"i", "n", "f", "o", "t", "a", "b", "l", "e", ".", "x", "m", "l">>, <<"I", "n", "f", "o", "T", "a", "b", "l", "e", ".", "x", "m", "l">>, <<"I", "N", "F", "O", "T", "A", "B", "L", "E", ".", "X", "M", "L">>, <<"i", "n", "f", "o", "r", "m", "a", "t", "i", "o", "n", "_", "t", "a", "b", "l", "e", ".", "x", "m", "l">>, <<"x", "s", "l", "F", "o", "r", "m", "1", "3", "F", "_", "X", "0", "2", ".", "x", "m", "l">>>>

\* C3: find_info_table_url tries index document, index page and the six
\* file names in this order, stops at the first that yields a URL, and
\* returns "" only after the index page was tried and every file name of
\* the list was fetched and failed.
C3_ResolverFallback ==
    /\ \A i \in 1..Len(tried) :
        /\ tried[i].method = ExpectedMethod(i)
        /\ i > 2 => i - 2 <= 6 /\ tried[i].name = ProbeNames[i - 2]
        /\ i < Len(tried) => tried[i].outcome # "found"
    /\ pc \in {"index_json", "index_html", "probe"} =>
        \A i \in 1..Len(tried) : tried[i].outcome # "found"
    /\ pc = "resolved" /\ xml_url # NoUrl => Last(tried).outcome = "found"
    /\ pc = "resolved" /\ xml_url = NoUrl =>
        /\ Len(tried) = 8
        /\ tried[2].method = "index_html"
        /\ \A i \in 3..8 : tried[i].outcome = "failed" /\ ~tried[i].success

C3_Witness ==
    /\ pc = "resolved" /\ xml_url = NoUrl /\ Len(tried) = 8
    /\ tried[1].outcome = "no candidate" /\ tried[2].outcome = "failed"

NonIncreasing(hs) ==
    \A i \in 1..(Len(hs) - 1) : hs[i].value >= hs[i + 1].value

Total(hs) ==
    LET sum[k \in 0..Len(hs)] ==
            IF k = 0 THEN 0 ELSE sum[k - 1] + hs[k].value
    IN  sum[Len(hs)]

\* C5: with n parsed records, top_holdings is the first min(n, L) of the
\* records in order of falling value (L = 10 for group C, 20 otherwise),
\* all_holdings the first min(n, 50) of the same order; both are
\* non-increasing, the first is a prefix of the second, and total_value and
\* num_holdings are over all n records.
C5_TruncatedSortedPrefixes ==
    pc = "returned" /\ result.error = None =>
        LET n == Len(holdings)
            top == result.top_holdings
            all == result.all_holdings
            limit == IF FUNDS[cik].group = "C" THEN 10 ELSE 20
            kept == {all[i] : i \in 1..Len(all)}
        IN  /\ Len(top) = Min(n, limit)
            /\ Len(all) = Min(n, 50)
            /\ top = SubSeq(all, 1, Len(top))
            /\ NonIncreasing(all)
            /\ Cardinality(kept) = Len(all)
            /\ \A j \in 1..n :
                \/ holdings[j] \in kept
                \/ holdings[j].value <= Last(all).value
            /\ \A i \in 1..Len(all) : \E j \in 1..n : holdings[j] = all[i]
            /\ \A i \in 1..(Len(all) - 1) :
                all[i].value = all[i + 1].value =>
                    \E j \in 1..n : \E k \in (j + 1)..n :
                        holdings[j] = all[i] /\ holdings[k] = all[i + 1]
            /\ result.total_value = Total(holdings)
            /\ result.num_holdings = n

C5_Witness ==
    /\ pc = "returned" /\ result.error = None /\ FUNDS[cik].group = "C"
    /\ Len(holdings) = 51
    /\ Len(result.top_holdings) = 10 /\ Len(result.all_holdings) = 50
    /\ ~NonIncreasing(holdings)

Dashes(s) == Cardinality({i \in 1..Len(s) : s[i] = "-"})

\* C6: get_latest_13f_url returns the entry at the smallest index whose form
\* is 13F-HR or 13F-HR/A: its accession number, the same without the
\* dashes, and the report date at that index or, where the report dates end
\* before it, the filing date; with no such entry it returns three empty
\* strings and does not raise.
C6_FirstQualifyingEntry ==
    pc = "located" /\ submissions.kind = "json" =>
        LET matches == {i \in 1..Len(submissions.form) :
                           submissions.form[i] \in {"13F-HR", "13F-HR/A"}}
        IN  /\ ref.status = "returned"
            /\ IF matches = {}
               THEN /\ ref.accession_raw = <<>> /\ ref.accession_formatted = <<>>
                    /\ ref.period = ""
               ELSE LET i == CHOOSE m \in matches : \A o \in matches : m <= o
                    IN  /\ ref.accession_formatted = submissions.accessionNumber[i]
                        /\ ref.period =
                             IF i <= Len(submissions.reportDate)
                             THEN submissions.reportDate[i]
                             ELSE submissions.filingDate[i]
            /\ Dashes(ref.accession_raw) = 0
            /\ Len(ref.accession_raw)
                 = Len(ref.accession_formatted) - Dashes(ref.accession_formatted)
            /\ ref.accession_formatted = <<"0", "0", "0", "0", "9", "5", "0", "1", "2", "3", "-", "2", "5", "-", "0", "0", "8", "3", "4", "3">> => ref.accession_raw = <<"0", "0", "0", "0", "9", "5", "0", "1", "2", "3", "2", "5", "0", "0", "8", "3", "4", "3">>

C6_Witness ==
    /\ pc = "located" /\ submissions.kind = "json"
    /\ submissions.form = <<"10-K", "13F-HR/A">>
    /\ Len(submissions.reportDate) = 1
    /\ ref.period = "2025-08-14"
    /\ ref.accession_raw = <<"0", "0", "0", "0", "9", "5", "0", "1", "2", "3", "2", "5", "0", "0", "8", "3", "4", "3">>

Blank(texts) == texts = <<>> \/ \A i \in 1..Len(texts[1]) : texts[1][i] = " "

\* C7: parse_13f_xml gives the same holdings for a document without
\* namespace, one in a known namespace and one in another namespace on its
\* root element, when the three hold the same position data; an element
\* whose issuer name is absent or blank is dropped in all three.
C7_NamespaceTolerance ==
    pc = "parsed" =>
        /\ parseOut[1].parsed = parseOut[2].parsed
        /\ parseOut[1].parsed = parseOut[3].parsed
        /\ \A d \in 1..3 :
            ~parseOut[d].parsed.raised =>
                Len(parseOut[d].parsed.out)
                    = Cardinality({i \in 1..Len(parseData) :
                                      ~Blank(parseData[i].nameOfIssuer)})

C7_Witness ==
    /\ pc = "parsed" /\ Len(parseData) = 2
    /\ Blank(parseData[1].nameOfIssuer) /\ ~Blank(parseData[2].nameOfIssuer)
    /\ ~parseOut[3].parsed.raised
    /\ Len(parseOut[3].parsed.out) = 1
    /\ parseOut[3].parsed.out[1].value = 1234000
    /\ parseOut[3].parsed.out[1].name = <<"A">>

\* C8 as the specification has it: a failure that is neither a rate-limit
\* response nor another HTTP status is retried once, so a call whose every
\* attempt fails this way issues exactly two requests and raises on the
\* second; another HTTP status is raised at once.
C8_RetriedOnce ==
    /\ requests # <<>> /\ AllAre(requests, "error") =>
        /\ Len(requests) <= 2
        /\ Len(requests) = 2 => fstatus = "raised"
    /\ \A i \in 1..Len(requests) :
        requests[i] = "http" => i = Len(requests) /\ fstatus = "raised"

\* C8, amended: such a failure is retried until the three attempts of the
\* call are used up, so a call whose every attempt fails this way issues
\* exactly three requests and raises on the third; another HTTP status is
\* raised at once, with no further request.
C8_RetriedUntilExhausted ==
    /\ requests # <<>> /\ AllAre(requests, "error") =>
        /\ Len(requests) <= 3
        /\ Len(requests) = 3 <=> fstatus = "raised"
        /\ Len(requests) < 3 <=> fstatus = "running"
    /\ \A i \in 1..Len(requests) :
        requests[i] = "http" => i = Len(requests) /\ fstatus = "raised"

C8_Witness ==
    requests = <<"error", "error", "error">> /\ fstatus = "raised"

\* C9: process_fund calls get_latest_13f_url, find_info_table_url and the
\* fetch and parse of the document in this order, each at most once; after
\* an empty reference it returns "No 13F filing found" without calling
\* find_info_table_url, and after an empty URL it returns an error without
\* fetching or parsing a document.
C9_OnePassInOrder ==
    /\ \E n \in 0..4 : steps = SubSeq(<<"locate", "resolve", "fetch", "parse">>, 1, n)
    /\ ref.status = "returned" /\ ref.accession_raw = <<>>
        /\ pc \notin {"start", "locate", "located"} =>
            /\ pc = "returned"
            /\ result.error = "No 13F filing found"
            /\ steps = <<"locate">>
    /\ pc = "returned" /\ result.error = "No 13F filing found" =>
        steps = <<"locate">>
    /\ pc = "returned" /\ Len(steps) >= 2 /\ xml_url = NoUrl =>
        /\ result.error = "Could not find information table XML"
        /\ steps = <<"locate", "resolve">>

C9_Witness ==
    /\ pc = "returned" /\ result.error = "No 13F filing found"
    /\ ref.status = "returned" /\ steps = <<"locate">>

\* C10: the filename probe accepts a file name only if the fetch of its URL
\* got a successful response; a file name whose fetch got none (one whose
\* every attempt was rate limited included) is passed over.
C10_ProbeNeedsSuccess ==
    \A i \in 1..Len(tried) :
        tried[i].method = "probe" /\ tried[i].outcome = "found" =>
            tried[i].success
=============================================================================
